---- MODULE Spec2Model ----
(***************************************************************************)
(* The jslint language server of vscode-jslint (src/jslint/extension.ts,   *)
(* lines 31-532): OptionsResolver, FileMatcher and Linter.                  *)
(*                                                                         *)
(* Strings are sequences of chunks of characters: "/p/s/a.js" is           *)
(* <<"/","p","/","s","/","a.js">>.  Prefix tests, lastIndexOf and substr   *)
(* of the source work on these sequences as they work on the characters.   *)
(* A configuration file on disk either fails to parse or holds a JSON      *)
(* object; its scalar and array valued keys are `props`, its `extends`     *)
(* key is `ext` and its `jslintConfig` key is `jslintConfig`.              *)
(***************************************************************************)
EXTENDS Integers, Sequences, FiniteSets, TLC

VARIABLES
  disk,            \* the files on disk: path -> content (fs.existsSync, fs.readFileSync)
  home,            \* process.env.HOME, read by getUserHome
  overflow,        \* where the runtime's stack runs out, when it does
  configPath,      \* OptionsResolver.configPath
  jslintOptions,   \* OptionsResolver.jslintOptions
  optionsCache,    \* OptionsResolver.optionsCache
  matcherConfigPath,       \* FileMatcher.configPath
  defaultExcludePatterns,  \* FileMatcher.defaultExcludePatterns
  excludeCache,            \* FileMatcher.excludeCache
  documents,       \* Linter.documents: uri -> the open document's text
  workspaceRoot,   \* Linter.workspaceRoot
  lib,             \* Linter.lib, the jslint module resolved by onInitialize
  event,           \* the event the connection delivered last
  log,             \* the runs of validate made while handling that event
  shown,           \* what the catch blocks of that handler showed
  diagnostics,     \* uri -> the diagnostics the client last received for it
  call             \* the last call made on the component under study, with its outcome

optionsVars == <<configPath, jslintOptions, optionsCache>>
matcherVars == <<matcherConfigPath, defaultExcludePatterns, excludeCache>>
linterVars  == <<documents, workspaceRoot, lib, event, log, shown, diagnostics>>
vars == <<disk, home, overflow, optionsVars, matcherVars, linterVars, call>>

----------------------------------------------------------------------------
(* Bounds *)

\* depth of nested readJSLintFile calls the JavaScript stack holds
MaxStack == 3

----------------------------------------------------------------------------
(* Strings and paths *)

EMPTY == <<>>                  \* the empty string ''
NULL  == <<"<null>">>          \* null / undefined where a string is expected
Falsy(s) == s \in {EMPTY, NULL}

SLASH == "/"

Range(s) == {s[i] : i \in 1..Len(s)}

RECURSIVE lastIndexOf(_, _)
\* String.lastIndexOf(c) as a 1-based position, 0 when c does not occur
lastIndexOf(s, c) ==
  IF s = <<>> THEN 0
  ELSE IF s[Len(s)] = c THEN Len(s)
  ELSE lastIndexOf(SubSeq(s, 1, Len(s) - 1), c)

\* path.dirname on POSIX absolute paths
dirname(p) ==
  LET i == lastIndexOf(p, SLASH)
  IN  IF i = 0 THEN <<".">>
      ELSE IF i = 1 THEN <<SLASH>>
      ELSE SubSeq(p, 1, i - 1)

\* path.join(directory, fileName)
join(directory, fileName) ==
  IF directory = <<SLASH>> THEN directory \o fileName
  ELSE directory \o <<SLASH>> \o fileName

\* path.resolve(base, target): an absolute target stands alone
resolve(base, target) ==
  IF target # <<>> /\ Head(target) = SLASH THEN target ELSE join(base, target)

JSLINTRC     == <<"jslint.conf">>
JSLINTIGNORE == <<".jslintignore">>
PACKAGEJSON  == <<"package.json">>

\* the places the model's files and documents lie at
ROOT    == <<"/">>
PROJ    == <<"/", "p">>
SRCDIR  == <<"/", "p", "/", "s">>
DOC     == <<"/", "p", "/", "s", "/", "a.js">>
HOMEDIR == <<"/", "h">>
CFG     == <<"/", "c.json">>
LEGACY  == <<"/", "l.json">>
BASE    == <<"base.conf">>
TOP     == <<"top.conf">>

----------------------------------------------------------------------------
(* JSON values *)

Num(n) == [t |-> "num", v |-> <<n>>]
Arr(s) == [t |-> "arr", v |-> s]
isArray(x) == x.t = "arr"

NoExt == <<>>
Body(props, ext) == [props |-> props, ext |-> ext]
EmptyBody == Body(<<>>, NoExt)

Undefined    == [t |-> "undefined", body |-> EmptyBody]
Null         == [t |-> "null", body |-> EmptyBody]
False        == [t |-> "false", body |-> EmptyBody]
Object(body) == [t |-> "object", body |-> body]
EmptyObject  == Object(EmptyBody)
Truthy(x)    == x.t = "object"

\* a parsed file: the object itself and its jslintConfig property
Content(body, cfg) == [body |-> body, jslintConfig |-> cfg]
EmptyContent == Content(EmptyBody, Undefined)

\* a file on disk: whether JSON.parse accepts it, what it parses to, and the
\* patterns parse-gitignore reads from it
File(ok, content, pats) == [ok |-> ok, content |-> content, pats |-> pats]

existsSync(d, p) == p \in DOMAIN d

----------------------------------------------------------------------------
(* locateFile *)

RECURSIVE locateFile(_, _, _)
locateFile(d, directory, fileName) ==
  LET location == join(directory, fileName)
      parent   == dirname(directory)
  IN  IF existsSync(d, location) THEN location
      ELSE IF parent # directory THEN locateFile(d, parent, fileName)
      ELSE NULL

----------------------------------------------------------------------------
(* OptionsResolver.readOptions and its helpers *)

ParseError(file, extendedFrom) ==
  [msg |-> "cant-load", file |-> file, from |-> extendedFrom]
MissingBase(baseFile, file) ==
  [msg |-> "cant-find", file |-> baseFile, from |-> file]

Outcome(val, msgs, reads, thrown) ==
  [val |-> val, msgs |-> msgs, reads |-> reads, thrown |-> thrown]

readJsonFile(d, file, extendedFrom) ==
  IF existsSync(d, file) /\ d[file].ok
  THEN [content |-> d[file].content, msgs |-> <<>>, reads |-> <<file>>]
  ELSE [content |-> EmptyContent,
        msgs |-> <<ParseError(file, extendedFrom)>>, reads |-> <<file>>]

concat(baseValue, contentValue) ==
  Arr(baseValue.v \o contentValue.v)

\* mergeWith without the customizer: the child's value replaces an array
mergeWith_NoCustomizer(base, content) ==
  Body([k \in DOMAIN base.props \cup DOMAIN content.props |->
          IF k \notin DOMAIN content.props THEN base.props[k]
          ELSE content.props[k]],
       IF content.ext # NoExt THEN content.ext ELSE base.ext)

\* _.mergeWith(base, content, customizer) on the keys of content
mergeWith(base, content) ==
  Body([k \in DOMAIN base.props \cup DOMAIN content.props |->
          IF k \notin DOMAIN content.props THEN base.props[k]
          ELSE IF k \in DOMAIN base.props /\ isArray(base.props[k])
               THEN concat(base.props[k], content.props[k])
          ELSE content.props[k]],
       IF content.ext # NoExt THEN content.ext ELSE base.ext)

deleteExtends(body) == Body(body.props, NoExt)

\* lines 228-235 when the stack runs out inside the try block of readJsonFile:
\* the catch shows the warning and answers {}
caught(file, extendedFrom) ==
  Outcome(EmptyObject, <<ParseError(file, extendedFrom)>>, <<file>>, FALSE)

RECURSIVE readJSLintFile(_, _, _, _)

\* readJSLintFile with `delete content.extends` only where the base was merged
readJSLintFile_KeepExtends(d, file, extendedFrom, stack) ==
  LET r       == readJsonFile(d, file, extendedFrom)
      content == r.content.body
  IN  IF content.ext # NoExt
      THEN LET baseFile == resolve(dirname(file), content.ext)
           IN  IF existsSync(d, baseFile)
               THEN IF stack = 0 /\ overflow = "thrown"
                    THEN Outcome(Undefined, r.msgs, r.reads, TRUE)
                    ELSE LET b == IF stack = 0 THEN caught(baseFile, file)
                                  ELSE readJSLintFile(d, baseFile, file, stack - 1)
                         IN  IF b.thrown
                             THEN Outcome(Undefined, r.msgs \o b.msgs,
                                          r.reads \o b.reads, TRUE)
                             ELSE Outcome(
                                    Object(deleteExtends(mergeWith(b.val.body, content))),
                                    r.msgs \o b.msgs, r.reads \o b.reads, FALSE)
               ELSE Outcome(Object(content),
                            r.msgs \o <<MissingBase(baseFile, file)>>, r.reads, FALSE)
      ELSE Outcome(Object(content), r.msgs, r.reads, FALSE)

\* stack: how many more nested calls the JavaScript stack holds; running out
\* of it is the RangeError the runtime throws, which escapes unless it is
\* thrown inside the try block of readJsonFile
readJSLintFile(d, file, extendedFrom, stack) ==
  LET r       == readJsonFile(d, file, extendedFrom)
      content == r.content.body
  IN  IF content.ext # NoExt
      THEN LET baseFile == resolve(dirname(file), content.ext)
           IN  IF existsSync(d, baseFile)
               THEN IF stack = 0 /\ overflow = "thrown"
                    THEN Outcome(Undefined, r.msgs, r.reads, TRUE)
                    ELSE LET b == IF stack = 0 THEN caught(baseFile, file)
                                  ELSE readJSLintFile(d, baseFile, file, stack - 1)
                         IN  IF b.thrown
                             THEN Outcome(Undefined, r.msgs \o b.msgs,
                                          r.reads \o b.reads, TRUE)
                             ELSE Outcome(
                                    Object(deleteExtends(mergeWith(b.val.body, content))),
                                    r.msgs \o b.msgs, r.reads \o b.reads, FALSE)
               ELSE Outcome(Object(deleteExtends(content)),
                            r.msgs \o <<MissingBase(baseFile, file)>>, r.reads, FALSE)
      ELSE Outcome(Object(content), r.msgs, r.reads, FALSE)

getUserHome(h) == h

readSole(d, file) ==
  LET r == readJsonFile(d, file, NULL)
  IN  Outcome(Object(r.content.body), r.msgs, r.reads, FALSE)

\* the outcome `r` of a read that came after the messages and reads so far
following(msgs, reads, r) ==
  Outcome(r.val, msgs \o r.msgs, reads \o r.reads, r.thrown)

\* the tail of readOptions, lines 291-298
readHome(d, h, opts, msgs, reads) ==
  LET file == join(getUserHome(h), JSLINTRC)
  IN  IF ~Falsy(getUserHome(h)) /\ existsSync(d, file)
      THEN following(msgs, reads, readJSLintFile(d, file, NULL, MaxStack))
      ELSE Outcome(opts, msgs, reads, FALSE)

\* lines 285-289, then the tail
readNearest(d, h, opts, fsPath, msgs, reads) ==
  LET configFile == locateFile(d, fsPath, JSLINTRC)
  IN  IF configFile # NULL
      THEN following(msgs, reads, readJSLintFile(d, configFile, NULL, MaxStack))
      ELSE readHome(d, h, opts, msgs, reads)

RECURSIVE locateLintConfig(_, _)
\* the nearest package.json that holds a jslintConfig property
locateLintConfig(d, directory) ==
  LET location == join(directory, PACKAGEJSON)
      parent   == dirname(directory)
  IN  IF existsSync(d, location) /\ d[location].ok
         /\ Truthy(d[location].content.jslintConfig)
      THEN location
      ELSE IF parent # directory THEN locateLintConfig(d, parent)
      ELSE NULL

\* readForPath walking on past a package.json without the property
readForPath_WalkOn(d, h, opts, fsPath) ==
  LET packageFile == locateLintConfig(d, fsPath)
  IN  IF packageFile # NULL
      THEN LET r == readJsonFile(d, packageFile, NULL)
           IN  Outcome(r.content.jslintConfig, r.msgs, r.reads, FALSE)
      ELSE readNearest(d, h, opts, fsPath, <<>>, <<>>)

\* lines 276-289, then the tail
readForPath(d, h, opts, fsPath) ==
  LET packageFile == locateFile(d, fsPath, PACKAGEJSON)
  IN  IF packageFile # NULL
      THEN LET r == readJsonFile(d, packageFile, NULL)
           IN  IF Truthy(r.content.jslintConfig)
               THEN Outcome(r.content.jslintConfig, r.msgs, r.reads, FALSE)
               ELSE readNearest(d, h, opts, fsPath, r.msgs, r.reads)
      ELSE readNearest(d, h, opts, fsPath, <<>>, <<>>)

\* the legacy options' own `config` key
LegacyConfig(opts) ==
  IF Truthy(opts) /\ "config" \in DOMAIN opts.body.props
  THEN opts.body.props["config"].v ELSE NULL

\* readOptions asking for the legacy config path before the explicit one
readOptions_LegacyFirst(d, h, cfgPath, opts, fsPath) ==
  IF ~Falsy(LegacyConfig(opts)) /\ existsSync(d, LegacyConfig(opts))
  THEN readSole(d, LegacyConfig(opts))
  ELSE IF ~Falsy(cfgPath) /\ existsSync(d, cfgPath)
  THEN readSole(d, cfgPath)
  ELSE IF ~Falsy(fsPath)
  THEN readForPath(d, h, opts, fsPath)
  ELSE readHome(d, h, opts, <<>>, <<>>)

readOptions(d, h, cfgPath, opts, fsPath) ==
  IF ~Falsy(cfgPath) /\ existsSync(d, cfgPath)
  THEN readSole(d, cfgPath)
  ELSE IF ~Falsy(LegacyConfig(opts)) /\ existsSync(d, LegacyConfig(opts))
  THEN readSole(d, LegacyConfig(opts))
  ELSE IF ~Falsy(fsPath)
  THEN readForPath(d, h, opts, fsPath)
  ELSE readHome(d, h, opts, <<>>, <<>>)

----------------------------------------------------------------------------
(* OptionsResolver: configure, clear, getOptions *)

EmptyCache == <<>>

\* lines 176-180
OptionsResolver_configure(path, options) ==
  [optionsCache |-> EmptyCache, configPath |-> path, jslintOptions |-> options]

\* clear that leaves the cache as it is
OptionsResolver_clear_Kept(cache) == cache

\* lines 182-184
OptionsResolver_clear(cache) == EmptyCache

\* lines 189-190: the outcome `r` of readOptions is stored under the path,
\* unless readOptions threw
store(cache, fsPath, r) ==
  [val |-> r.val, msgs |-> r.msgs, reads |-> r.reads, thrown |-> r.thrown,
   hit |-> FALSE,
   cache |-> IF r.thrown THEN cache
             ELSE [p \in DOMAIN cache \cup {fsPath} |->
                     IF p = fsPath THEN r.val ELSE cache[p]]]

\* lines 186-193: the value returned, what the call showed and read, and the
\* cache it leaves
getOptions(d, h, cfgPath, opts, cache, fsPath) ==
  IF fsPath \in DOMAIN cache /\ Truthy(cache[fsPath])
  THEN [val |-> cache[fsPath], msgs |-> <<>>, reads |-> <<>>, thrown |-> FALSE,
        hit |-> TRUE, cache |-> cache]
  ELSE store(cache, fsPath, readOptions(d, h, cfgPath, opts, fsPath))

----------------------------------------------------------------------------
(* minimatch and parse-gitignore, as FileMatcher uses them *)

RECURSIVE indexOf(_, _)
\* String.indexOf(c) as a 1-based position, 0 when c does not occur
indexOf(s, c) ==
  IF s = <<>> THEN 0
  ELSE IF Head(s) = c THEN 1
  ELSE LET i == indexOf(Tail(s), c) IN IF i = 0 THEN 0 ELSE i + 1

RECURSIVE split(_)
\* the segments of a path or a pattern, between its slashes
split(s) ==
  LET i == indexOf(s, SLASH)
  IN  IF i = 0 THEN <<s>>
      ELSE <<SubSeq(s, 1, i - 1)>> \o split(SubSeq(s, i + 1, Len(s)))

STAR     == "*"
GLOBSTAR == <<"**">>

RECURSIVE matchChunks(_, _)
matchChunks(f, p) ==
  IF p = <<>> THEN f = <<>>
  ELSE IF Head(p) = STAR
       THEN \E n \in 0..Len(f) : matchChunks(SubSeq(f, n + 1, Len(f)), Tail(p))
  ELSE f # <<>> /\ Head(f) = Head(p) /\ matchChunks(Tail(f), Tail(p))

\* one path segment against one pattern segment; a segment is never matched
\* by a pattern segment when it is empty and the pattern starts with a star
matchSegment(f, p) ==
  /\ (p # <<>> /\ Head(p) = STAR => f # <<>>)
  /\ matchChunks(f, p)

RECURSIVE matchOne(_, _)
\* the segments of a path against the segments of a pattern
matchOne(file, pattern) ==
  IF file = <<>> THEN pattern = <<>>
  ELSE IF pattern = <<>> THEN FALSE
  ELSE IF Head(pattern) = GLOBSTAR
       THEN \/ Tail(pattern) = <<>>
            \/ \E n \in 0..Len(file) :
                 matchOne(SubSeq(file, n + 1, Len(file)), Tail(pattern))
  ELSE matchSegment(Head(file), Head(pattern)) /\ matchOne(Tail(file), Tail(pattern))

minimatch(path, pattern) ==
  IF path = <<>> THEN pattern = <<>> ELSE matchOne(split(path), split(pattern))

\* parse-gitignore: the patterns of an ignore file
processIgnoreFile(d, file) == d[file].pats

----------------------------------------------------------------------------
(* FileMatcher *)

\* a FileSettings object is the sequence of its [pattern, value] entries; a
\* value is "true", "false" or something else that is not a boolean
RECURSIVE pickTrueKeys(_)
pickTrueKeys(obj) ==
  IF obj = <<>> THEN <<>>
  ELSE (IF Head(obj).value = "true" THEN <<Head(obj).pattern>> ELSE <<>>)
       \o pickTrueKeys(Tail(obj))

\* lines 320-324
FileMatcher_configure(path, exclude) ==
  [matcherConfigPath |-> path, excludeCache |-> EmptyCache,
   defaultExcludePatterns |-> pickTrueKeys(exclude)]

\* lines 326-328
FileMatcher_clear(cache) == EmptyCache

startsWith(s, prefix) ==
  Len(prefix) <= Len(s) /\ SubSeq(s, 1, Len(prefix)) = prefix

relativeTo(fsPath, folder) ==
  IF ~Falsy(folder) /\ startsWith(fsPath, folder)
  THEN LET cuttingPoint ==
             IF Len(folder) < Len(fsPath) /\ fsPath[Len(folder) + 1] = SLASH
             THEN Len(folder) + 1 ELSE Len(folder)
       IN  SubSeq(fsPath, cuttingPoint + 1, Len(fsPath))
  ELSE fsPath

folderOf(fsPath) ==
  LET index == lastIndexOf(fsPath, SLASH)
  IN  IF index > 0 THEN SubSeq(fsPath, 1, index - 1) ELSE fsPath

match(excludePatters, path, root) ==
  LET relativePath == relativeTo(path, root)
  IN  \E i \in 1..Len(excludePatters) : minimatch(relativePath, excludePatters[i])

\* lines 362-371: the patterns excludes takes and the folder it matches under
patternSource(d, cfgPath, patterns, fsPath, root) ==
  IF ~Falsy(cfgPath) /\ existsSync(d, cfgPath)
  THEN [patterns |-> processIgnoreFile(d, cfgPath), root |-> root]
  ELSE LET ignoreFile == locateFile(d, fsPath, JSLINTIGNORE)
       IN  IF ignoreFile # NULL
           THEN [patterns |-> processIgnoreFile(d, ignoreFile),
                 root |-> folderOf(ignoreFile)]
           ELSE [patterns |-> patterns, root |-> root]

\* excludes that lets a path through when there is none
excludes_NoPathPasses(d, cfgPath, patterns, cache, fsPath, root) ==
  [val |-> FALSE, hit |-> FALSE, matched |-> NULL, cache |-> cache]

\* lines 353-378: the value returned, the relative path that was matched (NULL
\* when none was) and the cache the call leaves
excludes(d, cfgPath, patterns, cache, fsPath, root) ==
  IF ~Falsy(fsPath)
  THEN IF fsPath \in DOMAIN cache
       THEN [val |-> cache[fsPath], hit |-> TRUE, matched |-> NULL, cache |-> cache]
       ELSE LET src == patternSource(d, cfgPath, patterns, fsPath, root)
                shouldBeExcluded == match(src.patterns, fsPath, src.root)
            IN  [val |-> shouldBeExcluded, hit |-> FALSE,
                 matched |-> relativeTo(fsPath, src.root),
                 cache |-> [p \in DOMAIN cache \cup {fsPath} |->
                              IF p = fsPath THEN shouldBeExcluded ELSE cache[p]]]
  ELSE [val |-> TRUE, hit |-> FALSE, matched |-> NULL, cache |-> cache]

----------------------------------------------------------------------------
(* makeDiagnostic, getSeverity *)

Error   == 1       \* DiagnosticSeverity.Error
Warning == 2       \* DiagnosticSeverity.Warning

\* getSeverity taking a warning without a code for a Warning
getSeverity_CodedOnly(problem) ==
  IF ~Falsy(problem.code) /\ Head(problem.code) = "E" THEN Error ELSE Warning

getSeverity(problem) ==
  IF Falsy(problem.code) \/ Head(problem.code) = "E" THEN Error ELSE Warning

\* makeDiagnostic setting both coordinates to 1 when either is out of range
makeDiagnostic_ClampBoth(problem) ==
  LET low       == problem.line <= 0 \/ problem.character <= 0
      line      == IF low THEN 1 ELSE problem.line
      character == IF low THEN 1 ELSE problem.character
  IN  [message  |-> <<problem.reason>>
                    \o (IF ~Falsy(problem.code) THEN <<" (">> \o problem.code \o <<")">>
                        ELSE <<>>),
       severity |-> getSeverity(problem),
       source   |-> "jsLint",
       code     |-> problem.code,
       start    |-> [line |-> line - 1, character |-> character - 1],
       end      |-> [line |-> line - 1, character |-> character - 1]]

makeDiagnostic(problem) ==
  LET line      == IF problem.line <= 0 THEN 1 ELSE problem.line
      character == IF problem.character <= 0 THEN 1 ELSE problem.character
  IN  [message  |-> <<problem.reason>>
                    \o (IF ~Falsy(problem.code) THEN <<" (">> \o problem.code \o <<")">>
                        ELSE <<>>),
       severity |-> getSeverity(problem),
       source   |-> "jsLint",
       code     |-> problem.code,
       start    |-> [line |-> line - 1, character |-> character - 1],
       end      |-> [line |-> line - 1, character |-> character - 1]]

----------------------------------------------------------------------------
(* The lint engine and the documents *)

\* a warning of the engine
RawWarning(code, line, column, message) ==
  [code |-> code, line |-> line, column |-> column, message |-> message]

\* JSLINT(content, options, globals) then JSLINT.data().warnings: what the
\* engine reports for a text
\* a null or undefined entry of the warnings list
NullWarning == RawWarning(NULL, 0, 0, "<null>")

JSLINT(content) ==
  CASE content = "x = 1" -> <<RawWarning(<<"W", "1">>, 1, 1, "Missing semicolon")>>
    [] content = "y = 1" -> <<RawWarning(<<"E", "2">>, 1, 3, "Undeclared"),
                              NullWarning,
                              RawWarning(<<"W", "1">>, 1, 1, "Missing semicolon")>>
    [] OTHER             -> <<>>

Texts == {"x = 1"}

FILEURI  == "file:///p/s/a.js"
UNTITLED == "untitled:1"
Uris     == <<FILEURI, UNTITLED>>

\* Files.uriToFilePath
uriToFilePath(uri) == IF uri = FILEURI THEN DOC ELSE NULL

CLOSED == "<closed>"

----------------------------------------------------------------------------
(* Linter.lintContent, validate, validateAll, validateSingle *)

NoData    == [msg |-> "no-data", file |-> NULL, from |-> NULL]
TypeError == [msg |-> "type-error", file |-> NULL, from |-> NULL]
RangeError == [msg |-> "range-error", file |-> NULL, from |-> NULL]

\* lines 480-495: what lintContent does with the options `g` it was given
lintWith(cx, ch, content, g) ==
  LET options == IF Truthy(g.val) THEN g.val ELSE EmptyObject
      after   == [ch EXCEPT !.options = g.cache]
  IN  IF g.thrown
      THEN [errors |-> <<>>, thrown |-> <<RangeError>>, msgs |-> g.msgs,
            optionsHit |-> g.hit, options |-> Undefined, engineCalled |-> FALSE,
            ch |-> after]
      ELSE IF cx.lib = "outdated"
      THEN [errors |-> <<>>, thrown |-> <<TypeError>>, msgs |-> g.msgs \o <<NoData>>,
            optionsHit |-> g.hit, options |-> options, engineCalled |-> TRUE,
            ch |-> after]
      ELSE LET warnings == JSLINT(content)
           IN  IF NullWarning \in Range(warnings)
               THEN [errors |-> <<>>, thrown |-> <<TypeError>>, msgs |-> g.msgs,
                     optionsHit |-> g.hit, options |-> options,
                     engineCalled |-> TRUE, ch |-> after]
               ELSE
               [errors |-> [i \in 1..Len(warnings) |->
                              [code |-> warnings[i].code, id |-> i - 1,
                               line |-> warnings[i].line,
                               character |-> warnings[i].column,
                               reason |-> warnings[i].message]],
                thrown |-> <<>>, msgs |-> g.msgs,
                optionsHit |-> g.hit, options |-> options, engineCalled |-> TRUE,
                ch |-> after]

\* lines 476-496.  cx: what the run reads (disk, settings, lib); ch: the caches
lintContent(cx, ch, content, fsPath) ==
  lintWith(cx, ch, content,
           getOptions(cx.disk, cx.home, cx.configPath, cx.jslintOptions,
                      ch.options, fsPath))

Publish(uri, list) == [uri |-> uri, diagnostics |-> list]

\* lines 505, 518: the path is excluded by the decision `x`, nothing is linted
skipped(uri, fsPath, x, ch) ==
  [run |-> [uri |-> uri, fsPath |-> fsPath, excluded |-> TRUE,
            excludeHit |-> x.hit, optionsCalled |-> FALSE,
            optionsHit |-> FALSE, options |-> Undefined,
            engineCalled |-> FALSE, msgs |-> <<>>,
            published |-> <<Publish(uri, <<>>)>>, thrown |-> <<>>],
   ch |-> ch]

\* a null entry of the errors lintContent returns
NullError == [code |-> NULL, id |-> 0 - 1, line |-> 0, character |-> 0,
              reason |-> "<null>"]

\* lines 509-516: the errors that are not null, in their order
present(errors) == SelectSeq(errors, LAMBDA error : error # NullError)

\* lines 506-518: the outcome `l` of lintContent is turned into diagnostics
linted(uri, fsPath, x, l) ==
  [run |-> [uri |-> uri, fsPath |-> fsPath, excluded |-> FALSE,
            excludeHit |-> x.hit, optionsCalled |-> TRUE,
            optionsHit |-> l.optionsHit, options |-> l.options,
            engineCalled |-> l.engineCalled, msgs |-> l.msgs,
            published |->
              IF l.thrown # <<>> THEN <<>>
              ELSE <<Publish(uri, [i \in 1..Len(present(l.errors)) |->
                                     makeDiagnostic(present(l.errors)[i])])>>,
            thrown |-> l.thrown],
   ch |-> l.ch]

\* lines 505-518: validate once FileMatcher.excludes has answered `x`
validateWith(cx, ch, uri, text, fsPath, x) ==
  IF x.val
  THEN skipped(uri, fsPath, x, [ch EXCEPT !.excludes = x.cache])
  ELSE linted(uri, fsPath, x,
              lintContent(cx, [ch EXCEPT !.excludes = x.cache], text, fsPath))

\* lines 499-519: one run of validate, and the caches it leaves.  `thrown`
\* holds the error the run ended with, if it did
validate(cx, ch, uri, text) ==
  LET fsPath == IF Falsy(uriToFilePath(uri)) THEN cx.workspaceRoot
                ELSE uriToFilePath(uri)
  IN  validateWith(cx, ch, uri, text, fsPath,
                   excludes(cx.disk, cx.matcherConfigPath, cx.defaultExcludePatterns,
                            ch.excludes, fsPath, cx.workspaceRoot))

RECURSIVE validateEach(_, _, _, _)
RECURSIVE validateRest(_, _, _, _)
\* the forEach of validateAll over the uris still to go
validateEach(cx, ch, docs, uris) ==
  IF uris = <<>> THEN [runs |-> <<>>, ch |-> ch]
  ELSE IF docs[Head(uris)] = CLOSED THEN validateEach(cx, ch, docs, Tail(uris))
  ELSE validateRest(cx, docs, uris, validate(cx, ch, Head(uris), docs[Head(uris)]))

\* validateRest giving up after a run that threw
validateRest_StopAtThrow(cx, docs, uris, v) ==
  IF v.run.thrown # <<>> THEN [runs |-> <<v.run>>, ch |-> v.ch]
  ELSE LET rest == validateEach(cx, v.ch, docs, Tail(uris))
       IN  [runs |-> <<v.run>> \o rest.runs, ch |-> rest.ch]

\* the run `v` of one document, followed by the runs of the documents after it
validateRest(cx, docs, uris, v) ==
  LET rest == validateEach(cx, v.ch, docs, Tail(uris))
  IN  [runs |-> <<v.run>> \o rest.runs, ch |-> rest.ch]

RECURSIVE Flatten(_)
Flatten(ss) == IF ss = <<>> THEN <<>> ELSE Head(ss) \o Flatten(Tail(ss))

\* the messages of getMessage for the runs that threw, in order
Caught(runs) == Flatten([i \in 1..Len(runs) |-> runs[i].thrown])

\* lines 455-465: tracker.sendErrors shows what the tracker collected
validateAll(cx, ch, docs) ==
  LET r == validateEach(cx, ch, docs, Uris)
  IN  [runs |-> r.runs, ch |-> r.ch, shown |-> Caught(r.runs)]

\* lines 467-473
validateSingle(cx, ch, uri, text) ==
  LET v == validate(cx, ch, uri, text)
  IN  [runs |-> <<v.run>>, ch |-> v.ch, shown |-> v.run.thrown]

\* what the client holds after the runs were published
Received(held, runs) ==
  [u \in DOMAIN held |->
     LET mine == {i \in 1..Len(runs) : runs[i].uri = u /\ runs[i].published # <<>>}
     IN  IF mine = {} THEN held[u]
         ELSE <<runs[CHOOSE i \in mine : \A j \in mine : j <= i].published[1].diagnostics>>]

\* what a handler answers when it answers nothing
NoResponse == [error |-> FALSE, retry |-> FALSE]

NoEvent == [kind |-> "none", uri |-> "", text |-> "", settings |-> <<>>,
            changes |-> <<>>, outcome |-> "", response |-> NoResponse]

\* the Linter as its constructor leaves it, with no event handled yet
LinterIdle ==
  /\ documents = [u \in Range(Uris) |-> CLOSED]
  /\ workspaceRoot = NULL
  /\ lib = "unset"
  /\ event = NoEvent
  /\ log = <<>>
  /\ shown = <<>>
  /\ diagnostics = [u \in Range(Uris) |-> <<>>]

----------------------------------------------------------------------------
(* The files and settings the resolver is run on *)


Plain(props, ext) == File(TRUE, Content(Body(props, ext), Undefined), <<>>)
Package(cfg)      == File(TRUE, Content(Body("name" :> Num(0), NoExt), cfg), <<>>)
Bad               == File(FALSE, EmptyContent, <<>>)

\* no file at `path`, or one of `files` there
Slot(path, files) == {<<>>} \cup {path :> f : f \in files}

PriorityDisks ==
  { c @@ l @@ k @@ n @@ u :
      c \in Slot(CFG, {Plain("b" :> Num(1), BASE), Bad}),
      l \in Slot(LEGACY, {Plain("b" :> Num(2), NoExt), Bad}),
      k \in Slot(join(PROJ, PACKAGEJSON),
                 {Package(Undefined), Package(Object(Body("b" :> Num(3), BASE)))}),
      n \in Slot(join(SRCDIR, JSLINTRC), {Plain("b" :> Num(4), NoExt)}),
      u \in Slot(join(HOMEDIR, JSLINTRC), {Plain("b" :> Num(5), NoExt)}) }

PackageKinds(n) ==
  {Package(Undefined), Package(False), Bad, Package(Object(Body("b" :> Num(n), NoExt)))}

PackageDisks ==
  { k1 @@ k2 @@ k3 @@ n :
      k1 \in Slot(join(SRCDIR, PACKAGEJSON), PackageKinds(31)),
      k2 \in Slot(join(PROJ, PACKAGEJSON), PackageKinds(32)),
      k3 \in Slot(join(ROOT, PACKAGEJSON), PackageKinds(33)),
      n  \in Slot(join(PROJ, JSLINTRC), {Plain("b" :> Num(4), NoExt)}) }

Children ==
  { Plain("a" :> Arr(<<2>>), BASE),
    Plain("a" :> Num(2), BASE),
    Plain("b" :> Num(2), BASE),
    Plain(("a" :> Arr(<<2>>)) @@ ("b" :> Num(2)), BASE) }

Parents ==
  { Plain(("a" :> Arr(<<1>>)) @@ ("b" :> Num(1)), NoExt),
    Plain("a" :> Num(1), NoExt),
    Plain(("a" :> Arr(<<1>>)) @@ ("c" :> Num(1)), TOP),
    Bad }

ExtendsDisks ==
  { n @@ b @@ t :
      n \in {join(SRCDIR, JSLINTRC) :> f : f \in Children},
      b \in Slot(join(SRCDIR, BASE), Parents),
      t \in Slot(join(SRCDIR, TOP),
                 {Plain(("a" :> Arr(<<0>>)) @@ ("b" :> Num(0)), NoExt)}) }

OptionDisks == PriorityDisks \cup PackageDisks \cup ExtendsDisks

Str(s) == [t |-> "str", v |-> s]

OptionSettings ==
  { Null, EmptyObject,
    Object(Body("b" :> Num(6), NoExt)),
    Object(Body(("b" :> Num(6)) @@ ("config" :> Str(LEGACY)), NoExt)) }

ConfigPaths == {NULL, CFG}
LookupPaths == {DOC, PROJ}

----------------------------------------------------------------------------
(* SpecOptions: OptionsResolver on its own *)

NoCall == [op |-> "none", fsPath |-> NULL, val |-> Undefined, msgs |-> <<>>,
           reads |-> <<>>, thrown |-> FALSE, hit |-> FALSE]

InitOptions ==
  /\ disk \in OptionDisks
  /\ home \in {NULL, HOMEDIR}
  /\ overflow = "thrown"
  /\ configPath = NULL
  /\ jslintOptions = Null
  /\ optionsCache = EmptyCache
  /\ matcherConfigPath = NULL
  /\ defaultExcludePatterns = <<>>
  /\ excludeCache = EmptyCache
  /\ LinterIdle
  /\ call = NoCall

Configure ==
  \E path \in ConfigPaths, options \in OptionSettings :
    LET c == OptionsResolver_configure(path, options)
    IN  /\ optionsCache' = c.optionsCache
        /\ configPath' = c.configPath
        /\ jslintOptions' = c.jslintOptions
        /\ call' = [NoCall EXCEPT !.op = "configure"]
        /\ UNCHANGED <<disk, home, overflow, matcherVars, linterVars>>

Clear ==
  /\ optionsCache' = OptionsResolver_clear(optionsCache)
  /\ call' = [NoCall EXCEPT !.op = "clear"]
  /\ UNCHANGED <<disk, home, overflow, configPath, jslintOptions, matcherVars, linterVars>>

GetOptions ==
  \E fsPath \in LookupPaths :
    LET r == getOptions(disk, home, configPath, jslintOptions, optionsCache, fsPath)
    IN  /\ optionsCache' = r.cache
        /\ call' = [op |-> "getOptions", fsPath |-> fsPath, val |-> r.val,
                    msgs |-> r.msgs, reads |-> r.reads, thrown |-> r.thrown,
                    hit |-> r.hit]
        /\ UNCHANGED <<disk, home, overflow, configPath, jslintOptions, matcherVars, linterVars>>

NextOptions == Configure \/ Clear \/ GetOptions

SpecOptions == InitOptions /\ [][NextOptions]_vars

----------------------------------------------------------------------------
(* What the claims about configuration resolution speak of *)

RECURSIVE Ancestors(_)
\* the path itself, then each directory above it, up to the filesystem root
Ancestors(p) == IF dirname(p) = p THEN <<p>> ELSE <<p>> \o Ancestors(dirname(p))

Least(S) == CHOOSE i \in S : \A j \in S : i <= j

\* indices, nearest first, of the ancestors of p holding a file called name
Holding(p, name) ==
  {i \in 1..Len(Ancestors(p)) : join(Ancestors(p)[i], name) \in DOMAIN disk}

Nearest(p, name) ==
  IF Holding(p, name) = {} THEN NULL
  ELSE join(Ancestors(p)[Least(Holding(p, name))], name)

HasLintConfig(file) ==
  file \in DOMAIN disk /\ disk[file].ok /\ Truthy(disk[file].content.jslintConfig)

ParsedAlone(file) ==
  IF disk[file].ok THEN Object(disk[file].content.body) ELSE EmptyObject

HomeFile == join(home, JSLINTRC)

ExplicitApplies == ~Falsy(configPath) /\ configPath \in DOMAIN disk
LegacyApplies ==
  /\ jslintOptions.t = "object"
  /\ "config" \in DOMAIN jslintOptions.body.props
  /\ jslintOptions.body.props["config"].v \in DOMAIN disk
PackageApplies(p) == ~Falsy(p) /\ HasLintConfig(Nearest(p, PACKAGEJSON))
NearestApplies(p) == ~Falsy(p) /\ Nearest(p, JSLINTRC) # NULL
HomeApplies       == ~Falsy(home) /\ HomeFile \in DOMAIN disk

\* the rank, 1 to 6, of the first source that applies to p
Chosen(p) ==
  IF ExplicitApplies THEN 1
  ELSE IF LegacyApplies THEN 2
  ELSE IF PackageApplies(p) THEN 3
  ELSE IF NearestApplies(p) THEN 4
  ELSE IF HomeApplies THEN 5
  ELSE 6

\* what source number n yields for p
Yield(n, p) ==
  CASE n = 1 -> ParsedAlone(configPath)
    [] n = 2 -> ParsedAlone(jslintOptions.body.props["config"].v)
    [] n = 3 -> disk[Nearest(p, PACKAGEJSON)].content.jslintConfig
    [] n = 4 -> readJSLintFile(disk, Nearest(p, JSLINTRC), NULL, MaxStack).val
    [] n = 5 -> readJSLintFile(disk, HomeFile, NULL, MaxStack).val
    [] n = 6 -> jslintOptions

\* the files of the sources ranked below n
LowerFiles(n, p) ==
  (IF n < 2 /\ jslintOptions.t = "object" /\ "config" \in DOMAIN jslintOptions.body.props
     THEN {jslintOptions.body.props["config"].v} ELSE {})
  \cup (IF n < 3 THEN {join(Ancestors(p)[i], PACKAGEJSON) : i \in 1..Len(Ancestors(p))}
        ELSE {})
  \cup (IF n < 4 THEN {join(Ancestors(p)[i], JSLINTRC) : i \in 1..Len(Ancestors(p))}
        ELSE {})
  \cup (IF n < 5 /\ ~Falsy(home) THEN {HomeFile} ELSE {})

Miss == call.op = "getOptions" /\ ~call.hit

\* C5: on a cache miss getOptions returns what the first applicable source
\* yields, in the order explicit path, legacy config path, package.json
\* property, nearest jslint.conf, home jslint.conf, legacy options, and reads
\* no file of a source ranked below it.
C5_FirstApplicableSource ==
  Miss /\ ~call.thrown =>
    /\ call.val = Yield(Chosen(call.fsPath), call.fsPath)
    /\ Range(call.reads) \cap LowerFiles(Chosen(call.fsPath), call.fsPath) = {}

\* the explicit path wins although a legacy path, a package.json property and
\* a jslint.conf are all there
C5_Witness ==
  /\ Miss
  /\ ExplicitApplies /\ LegacyApplies
  /\ PackageApplies(call.fsPath) /\ NearestApplies(call.fsPath)
  /\ call.val = ParsedAlone(configPath)

PackageAt(p, i) == join(Ancestors(p)[i], PACKAGEJSON)

\* the ancestors of p whose package.json holds the property
WithLintConfig(p) == {i \in Holding(p, PACKAGEJSON) : HasLintConfig(PackageAt(p, i))}

NoConfigPath == ~ExplicitApplies /\ ~LegacyApplies /\ ~Falsy(call.fsPath)

\* C6 as first stated: with no explicit and no legacy config path, getOptions
\* returns the jslintConfig property of the nearest ancestor whose
\* package.json holds one, whatever package.json files lie nearer.
C6_NearestHoldingProperty ==
  Miss /\ NoConfigPath /\ WithLintConfig(call.fsPath) # {} =>
    call.val =
      disk[PackageAt(call.fsPath, Least(WithLintConfig(call.fsPath)))].content.jslintConfig

\* C6 as amended: with no explicit and no legacy config path, getOptions looks
\* at the nearest ancestor package.json only.  When that file holds the
\* property, the property is returned and nothing else is read; when it does
\* not, no package.json farther up is read and the result is that of the
\* jslint.conf lookup, the home jslint.conf or the legacy options.
C6_NearestPackageOnly ==
  Miss /\ NoConfigPath /\ Nearest(call.fsPath, PACKAGEJSON) # NULL =>
    LET p == call.fsPath
        k == Nearest(p, PACKAGEJSON)
    IN  IF HasLintConfig(k)
        THEN /\ call.val = disk[k].content.jslintConfig
             /\ call.reads = <<k>>
        ELSE /\ \A i \in 1..Len(Ancestors(p)) :
                  PackageAt(p, i) \in Range(call.reads) => PackageAt(p, i) = k
             /\ ~call.thrown =>
                  call.val = Yield(IF NearestApplies(p) THEN 4
                                   ELSE IF HomeApplies THEN 5 ELSE 6, p)

\* a package.json without the property lies nearer than one with it
C6_Witness ==
  /\ Miss /\ NoConfigPath
  /\ Nearest(call.fsPath, PACKAGEJSON) # NULL
  /\ ~HasLintConfig(Nearest(call.fsPath, PACKAGEJSON))
  /\ WithLintConfig(call.fsPath) # {}

\* the dedicated config file getOptions resolved with extends processing
Dedicated ==
  IF Chosen(call.fsPath) = 4 THEN Nearest(call.fsPath, JSLINTRC) ELSE HomeFile

\* the call resolved a dedicated config file that parses and has an extends key
ExtendsCase ==
  /\ Miss
  /\ Chosen(call.fsPath) \in {4, 5}
  /\ disk[Dedicated].ok
  /\ disk[Dedicated].content.body.ext # NoExt

BaseOf(file) == resolve(dirname(file), disk[file].content.body.ext)

\* C7: when the extends target exists, the result is the resolved parent merged
\* with the child: the child's value wins unless the parent's is an array,
\* which is concatenated parent-then-child; the parent's other keys are kept
\* and the result has no extends key.
C7_ExtendsMerge ==
  ExtendsCase /\ BaseOf(Dedicated) \in DOMAIN disk /\ ~call.thrown =>
    LET child  == disk[Dedicated].content.body
        parent == readJSLintFile(disk, BaseOf(Dedicated), Dedicated, MaxStack - 1).val.body
        got    == call.val.body
    IN  /\ call.val.t = "object"
        /\ got.ext = NoExt
        /\ DOMAIN got.props = DOMAIN parent.props \cup DOMAIN child.props
        /\ \A k \in DOMAIN got.props :
             got.props[k] =
               IF k \notin DOMAIN child.props THEN parent.props[k]
               ELSE IF k \notin DOMAIN parent.props THEN child.props[k]
               ELSE IF parent.props[k].t = "arr"
                    THEN Arr(parent.props[k].v \o child.props[k].v)
               ELSE child.props[k]

\* parent {a:[1], b:1} and child {a:[2], extends} give {a:[1,2], b:1}
C7_Witness ==
  /\ ExtendsCase
  /\ BaseOf(Dedicated) \in DOMAIN disk
  /\ disk[BaseOf(Dedicated)] = Plain(("a" :> Arr(<<1>>)) @@ ("b" :> Num(1)), NoExt)
  /\ disk[Dedicated] = Plain("a" :> Arr(<<2>>), BASE)
  /\ call.val = Object(Body(("a" :> Arr(<<1, 2>>)) @@ ("b" :> Num(1)), NoExt))

\* the messages a call showed about the file or its extends target
About(file) ==
  SelectSeq(call.msgs, LAMBDA m : m.file \in {file, BaseOf(file)} \/ m.from = file)

\* C8: when the extends target is not on disk, resolution does not throw,
\* shows one warning naming the missing file and the file that referred to it,
\* and returns the child's content without its extends key.
C8_MissingBaseWarned ==
  ExtendsCase /\ BaseOf(Dedicated) \notin DOMAIN disk =>
    /\ ~call.thrown
    /\ About(Dedicated) = <<MissingBase(BaseOf(Dedicated), Dedicated)>>
    /\ call.val = Object(Body(disk[Dedicated].content.body.props, NoExt))

C8_Witness ==
  /\ ExtendsCase
  /\ BaseOf(Dedicated) \notin DOMAIN disk
  /\ Len(call.msgs) = 1
  /\ call.val.body.props # <<>>

----------------------------------------------------------------------------
(* SpecMatcher: FileMatcher on its own *)

IGNORE  == <<"/", "p", "/", "ig">>
OUTSIDE == <<"/", "p", "q", "/", "a.js">>     \* /pq/a.js, beside /p

Ignore(pats) == File(FALSE, EmptyContent, pats)

MatcherDisks ==
  { c @@ s @@ p @@ r :
      c \in Slot(IGNORE, {Ignore(<<>>), Ignore(<< <<"s", "/", "*">> >>)}),
      s \in Slot(join(SRCDIR, JSLINTIGNORE), {Ignore(<<>>), Ignore(<< <<"*">> >>)}),
      p \in Slot(join(PROJ, JSLINTIGNORE), {Ignore(<< <<"q", "/", "*">>, <<"s", "/", "*">> >>)}),
      r \in Slot(join(ROOT, JSLINTIGNORE), {Ignore(<< <<"p", "/", "**">> >>)}) }

Entry(pattern, value) == [pattern |-> pattern, value |-> value]

ExcludeSettings ==
  { <<>>,
    <<Entry(<<"s", "/", "*">>, "true")>>,
    <<Entry(<<"s", "/", "*">>, "yes"), Entry(<<"**">>, "false")>>,
    <<Entry(<<"x">>, "true"), Entry(<<"**", "/", "a.js">>, "true")>> }

ExcludePaths == {NULL, IGNORE}
MatchedPaths == {DOC, PROJ, OUTSIDE, NULL, EMPTY}
Roots        == {NULL, PROJ, ROOT}

NoMatcherCall == [op |-> "none", fsPath |-> NULL, root |-> NULL, exclude |-> <<>>,
                  val |-> FALSE, hit |-> FALSE, matched |-> NULL]

InitMatcher ==
  /\ disk \in MatcherDisks
  /\ home = NULL
  /\ overflow = "thrown"
  /\ configPath = NULL
  /\ jslintOptions = Null
  /\ optionsCache = EmptyCache
  /\ matcherConfigPath = NULL
  /\ defaultExcludePatterns = <<>>
  /\ excludeCache = EmptyCache
  /\ LinterIdle
  /\ call = NoMatcherCall

ConfigureMatcher ==
  \E path \in ExcludePaths, exclude \in ExcludeSettings :
    LET c == FileMatcher_configure(path, exclude)
    IN  /\ matcherConfigPath' = c.matcherConfigPath
        /\ excludeCache' = c.excludeCache
        /\ defaultExcludePatterns' = c.defaultExcludePatterns
        /\ call' = [NoMatcherCall EXCEPT !.op = "configure", !.exclude = exclude]
        /\ UNCHANGED <<disk, home, overflow, optionsVars, linterVars>>

ClearMatcher ==
  /\ excludeCache' = FileMatcher_clear(excludeCache)
  /\ call' = [NoMatcherCall EXCEPT !.op = "clear"]
  /\ UNCHANGED <<disk, home, overflow, optionsVars, matcherConfigPath,
                 defaultExcludePatterns, linterVars>>

Excludes ==
  \E fsPath \in MatchedPaths, root \in Roots :
    LET r == excludes(disk, matcherConfigPath, defaultExcludePatterns,
                      excludeCache, fsPath, root)
    IN  /\ excludeCache' = r.cache
        /\ call' = [op |-> "excludes", fsPath |-> fsPath, root |-> root,
                    exclude |-> <<>>, val |-> r.val, hit |-> r.hit,
                    matched |-> r.matched]
        /\ UNCHANGED <<disk, home, overflow, optionsVars, matcherConfigPath,
                 defaultExcludePatterns, linterVars>>

NextMatcher == ConfigureMatcher \/ ClearMatcher \/ Excludes

SpecMatcher == InitMatcher /\ [][NextMatcher]_vars

----------------------------------------------------------------------------
(* What the claim about pattern sources speaks of *)

MatcherMiss == call.op = "excludes" /\ ~call.hit /\ ~Falsy(call.fsPath)

ConfiguredIgnore == ~Falsy(matcherConfigPath) /\ matcherConfigPath \in DOMAIN disk
NearestIgnore(p) == Nearest(p, JSLINTIGNORE)

\* the patterns of the one source the claim names, and the directory the path
\* is taken relative to
ClaimedSource(p, root) ==
  IF ConfiguredIgnore
  THEN [patterns |-> disk[matcherConfigPath].pats, dir |-> root]
  ELSE IF NearestIgnore(p) # NULL
  THEN [patterns |-> disk[NearestIgnore(p)].pats, dir |-> dirname(NearestIgnore(p))]
  ELSE [patterns |-> defaultExcludePatterns, dir |-> root]

MatchesSome(path, patterns) ==
  \E i \in 1..Len(patterns) : minimatch(path, patterns[i])

TrueOnly(exclude) ==
  SelectSeq([i \in 1..Len(exclude) |-> exclude[i].pattern],
            LAMBDA q : \E i \in 1..Len(exclude) :
                          exclude[i].pattern = q /\ exclude[i].value = "true")

\* C10: on a cache miss for a non-empty path, excludes takes its patterns from
\* the configured ignore file if it exists (path relative to the root), else
\* from the nearest ancestor .jslintignore (path relative to that file's own
\* directory), else from the static patterns whose value is exactly true (path
\* relative to the root), and returns true iff the relative path matches one
\* of those patterns.
C10_OnePatternSource ==
  /\ call.op = "configure" => defaultExcludePatterns = TrueOnly(call.exclude)
  /\ MatcherMiss =>
       LET src == ClaimedSource(call.fsPath, call.root)
       IN  /\ call.matched = relativeTo(call.fsPath, src.dir)
           /\ call.val = MatchesSome(relativeTo(call.fsPath, src.dir), src.patterns)

\* the same, leaving aside a .jslintignore that lies in the filesystem root
C10_BelowTheRoot ==
  /\ call.op = "configure" => defaultExcludePatterns = TrueOnly(call.exclude)
  /\ MatcherMiss
       /\ (ConfiguredIgnore \/ NearestIgnore(call.fsPath) # join(ROOT, JSLINTIGNORE)) =>
       LET src == ClaimedSource(call.fsPath, call.root)
       IN  /\ call.matched = relativeTo(call.fsPath, src.dir)
           /\ call.val = MatchesSome(relativeTo(call.fsPath, src.dir), src.patterns)

----------------------------------------------------------------------------
(* Spec: the Linter, one action per event of the connection *)

LinterDisks ==
  { <<>>,
    join(SRCDIR, JSLINTRC) :> Bad,
    (join(PROJ, JSLINTIGNORE) :> Ignore(<< <<"s", "/", "*">> >>))
      @@ (join(PROJ, JSLINTRC) :> Plain("b" :> Num(5), NoExt)),
    (CFG :> Bad) @@ (IGNORE :> Ignore(<<>>))
      @@ (join(SRCDIR, JSLINTRC) :> Plain("b" :> Num(4), NoExt)) }

\* the jslint section of a settings payload; options Undefined: not given
JSLintSettings(config, options, excludePath, exclude) ==
  [config |-> config, options |-> options, excludePath |-> excludePath,
   exclude |-> exclude]

SettingsPayloads ==
  { JSLintSettings(NULL, Undefined, NULL, <<>>),
    JSLintSettings(CFG, Object(Body("b" :> Num(6), NoExt)), IGNORE,
                   <<Entry(<<"s", "/", "*">>, "true")>>),
    JSLintSettings(NULL, Null, NULL, <<Entry(<<"s", "/", "*">>, "true")>>) }

\* _.assign({ options: {}, exclude: {} }, settings.jslint)
assign(settings) ==
  [settings EXCEPT !.options = IF @ = Undefined THEN EmptyObject ELSE @]

\* the file events a client may report
WatchedChanges ==
  { <<>>,
    <<join(SRCDIR, JSLINTRC)>>,
    <<join(PROJ, JSLINTIGNORE)>>,
    <<join(PROJ, PACKAGEJSON)>>,
    <<join(PROJ, PACKAGEJSON), join(PROJ, JSLINTIGNORE), join(PROJ, JSLINTRC)>> }

\* lines 432-435
lastSegment(fsPath) ==
  LET index == lastIndexOf(fsPath, SLASH)
  IN  IF index > 0 THEN SubSeq(fsPath, index + 1, Len(fsPath)) ELSE fsPath

Context ==
  [disk |-> disk, home |-> home, configPath |-> configPath,
   jslintOptions |-> jslintOptions, matcherConfigPath |-> matcherConfigPath,
   defaultExcludePatterns |-> defaultExcludePatterns,
   workspaceRoot |-> workspaceRoot, lib |-> lib]

Caches == [options |-> optionsCache, excludes |-> excludeCache]

Ready == lib # "unset"

Init ==
  /\ disk \in LinterDisks
  /\ home = HOMEDIR
  /\ overflow = "thrown"
  /\ configPath = NULL
  /\ jslintOptions = Null
  /\ optionsCache = EmptyCache
  /\ matcherConfigPath = NULL
  /\ defaultExcludePatterns = <<>>
  /\ excludeCache = EmptyCache
  /\ LinterIdle
  /\ call = NoCall

\* lines 439-452: the engine handle onInitialize leaves and the answer it
\* gives, for what Files.resolveModule came back with
onInitialize(held, outcome) ==
  CASE outcome = "missing" ->
         [lib |-> held, response |-> [error |-> TRUE, retry |-> TRUE]]
    [] outcome = "invalid" ->
         [lib |-> held, response |-> [error |-> TRUE, retry |-> FALSE]]
    [] OTHER ->
         [lib |-> outcome, response |-> NoResponse]

\* lines 437-453: Files.resolveModule finds a current jslint, an outdated one,
\* a module without `load`, or nothing
Initialize ==
  \E rootPath \in {NULL, PROJ},
     outcome \in {"current", "outdated", "invalid", "missing"} :
    /\ ~Ready
    /\ workspaceRoot' = rootPath
    /\ lib' = onInitialize(lib, outcome).lib
    /\ event' = [NoEvent EXCEPT !.kind = "initialize", !.outcome = outcome,
                                !.response = onInitialize(lib, outcome).response]
    /\ log' = <<>>
    /\ shown' = <<>>
    /\ UNCHANGED <<disk, home, overflow, optionsVars, matcherVars, documents, diagnostics, call>>

\* line 395, for the document `uri` whose text is now `text`
DidChangeContentOf(uri, text) ==
    \E r \in {validateSingle(Context, Caches, uri, text)} :
        /\ Ready
        /\ documents' = [documents EXCEPT ![uri] = text]
        /\ optionsCache' = r.ch.options
        /\ excludeCache' = r.ch.excludes
        /\ event' = [NoEvent EXCEPT !.kind = "content", !.uri = uri, !.text = text]
        /\ log' = r.runs
        /\ shown' = r.shown
        /\ diagnostics' = Received(diagnostics, r.runs)
        /\ UNCHANGED <<disk, home, overflow, configPath, jslintOptions, matcherConfigPath,
                       defaultExcludePatterns, workspaceRoot, lib, call>>

\* line 395: a document was opened or edited
DidChangeContent ==
  \E uri \in Range(Uris), text \in Texts : DidChangeContentOf(uri, text)

\* TextDocuments drops a document the client closes
DidClose ==
  \E uri \in Range(Uris) :
    /\ Ready
    /\ documents[uri] # CLOSED
    /\ documents' = [documents EXCEPT ![uri] = CLOSED]
    /\ event' = [NoEvent EXCEPT !.kind = "close", !.uri = uri]
    /\ log' = <<>>
    /\ shown' = <<>>
    /\ UNCHANGED <<disk, home, overflow, optionsVars, matcherVars, workspaceRoot, lib,
                   diagnostics, call>>

\* the handler validating before it reconfigures
DidChangeConfiguration_ValidateFirst ==
  \E settings \in SettingsPayloads :
    LET jslintSettings == assign(settings)
        o  == OptionsResolver_configure(jslintSettings.config, jslintSettings.options)
        m  == FileMatcher_configure(jslintSettings.excludePath, jslintSettings.exclude)
    IN  \E r \in {validateAll(Context, Caches, documents)} :
        /\ Ready
        /\ configPath' = o.configPath
        /\ jslintOptions' = o.jslintOptions
        /\ matcherConfigPath' = m.matcherConfigPath
        /\ defaultExcludePatterns' = m.defaultExcludePatterns
        /\ optionsCache' = o.optionsCache
        /\ excludeCache' = m.excludeCache
        /\ event' = [NoEvent EXCEPT !.kind = "configuration", !.settings = <<settings>>]
        /\ log' = r.runs
        /\ shown' = r.shown
        /\ diagnostics' = Received(diagnostics, r.runs)
        /\ UNCHANGED <<disk, home, overflow, documents, workspaceRoot, lib, call>>

\* lines 399-405
DidChangeConfiguration ==
  \E settings \in SettingsPayloads :
    LET jslintSettings == assign(settings)
        o  == OptionsResolver_configure(jslintSettings.config, jslintSettings.options)
        m  == FileMatcher_configure(jslintSettings.excludePath, jslintSettings.exclude)
        cx == [Context EXCEPT !.configPath = o.configPath,
                              !.jslintOptions = o.jslintOptions,
                              !.matcherConfigPath = m.matcherConfigPath,
                              !.defaultExcludePatterns = m.defaultExcludePatterns]
    IN  \E r \in {validateAll(cx, [options |-> o.optionsCache,
                                     excludes |-> m.excludeCache], documents)} :
        /\ Ready
        /\ configPath' = o.configPath
        /\ jslintOptions' = o.jslintOptions
        /\ matcherConfigPath' = m.matcherConfigPath
        /\ defaultExcludePatterns' = m.defaultExcludePatterns
        /\ optionsCache' = r.ch.options
        /\ excludeCache' = r.ch.excludes
        /\ event' = [NoEvent EXCEPT !.kind = "configuration", !.settings = <<settings>>]
        /\ log' = r.runs
        /\ shown' = r.shown
        /\ diagnostics' = Received(diagnostics, r.runs)
        /\ UNCHANGED <<disk, home, overflow, documents, workspaceRoot, lib, call>>

\* the handler emptying both caches whichever of the two names came
DidChangeWatchedFiles_ClearBoth ==
  \E changes \in WatchedChanges :
    LET names == {lastSegment(changes[i]) : i \in 1..Len(changes)}
        needsValidating == JSLINTRC \in names \/ JSLINTIGNORE \in names
        cleared == IF needsValidating
                   THEN [options  |-> OptionsResolver_clear(optionsCache),
                         excludes |-> FileMatcher_clear(excludeCache)]
                   ELSE Caches
    IN  \E r \in {IF needsValidating THEN validateAll(Context, cleared, documents)
                  ELSE [runs |-> <<>>, ch |-> cleared, shown |-> <<>>]} :
        /\ Ready
        /\ optionsCache' = r.ch.options
        /\ excludeCache' = r.ch.excludes
        /\ event' = [NoEvent EXCEPT !.kind = "watched", !.changes = changes]
        /\ log' = r.runs
        /\ shown' = r.shown
        /\ diagnostics' = Received(diagnostics, r.runs)
        /\ UNCHANGED <<disk, home, overflow, configPath, jslintOptions, matcherConfigPath,
                       defaultExcludePatterns, documents, workspaceRoot, lib, call>>

\* lines 406-425
DidChangeWatchedFiles ==
  \E changes \in WatchedChanges :
    LET names == {lastSegment(changes[i]) : i \in 1..Len(changes)}
        needsValidating == JSLINTRC \in names \/ JSLINTIGNORE \in names
        cleared == [options  |-> IF JSLINTRC \in names
                                 THEN OptionsResolver_clear(optionsCache)
                                 ELSE optionsCache,
                    excludes |-> IF JSLINTIGNORE \in names
                                 THEN FileMatcher_clear(excludeCache)
                                 ELSE excludeCache]
    IN  \E r \in {IF needsValidating THEN validateAll(Context, cleared, documents)
                  ELSE [runs |-> <<>>, ch |-> cleared, shown |-> <<>>]} :
        /\ Ready
        /\ optionsCache' = r.ch.options
        /\ excludeCache' = r.ch.excludes
        /\ event' = [NoEvent EXCEPT !.kind = "watched", !.changes = changes]
        /\ log' = r.runs
        /\ shown' = r.shown
        /\ diagnostics' = Received(diagnostics, r.runs)
        /\ UNCHANGED <<disk, home, overflow, configPath, jslintOptions, matcherConfigPath,
                       defaultExcludePatterns, documents, workspaceRoot, lib, call>>

\* somebody edits, adds or removes files on disk
DiskChange ==
  \E d \in LinterDisks :
    /\ d # disk
    /\ disk' = d
    /\ event' = [NoEvent EXCEPT !.kind = "disk"]
    /\ log' = <<>>
    /\ shown' = <<>>
    /\ UNCHANGED <<home, overflow, optionsVars, matcherVars, documents, workspaceRoot, lib,
                   diagnostics, call>>

Next ==
  \/ Initialize
  \/ DidChangeContent
  \/ DidClose
  \/ DidChangeConfiguration
  \/ DidChangeWatchedFiles
  \/ DiskChange

Spec == Init /\ [][Next]_vars

----------------------------------------------------------------------------
(* What the claims about validation speak of *)

Runs == 1..Len(log)

\* what a lookup made now, with empty caches, yields
FreshExcluded(p) ==
  excludes(disk, matcherConfigPath, defaultExcludePatterns, EmptyCache, p,
           workspaceRoot).val
FreshOptions(p) == readOptions(disk, home, configPath, jslintOptions, p)
OrEmpty(x) == IF Truthy(x) THEN x ELSE EmptyObject

PublishedOnce(run) ==
  Len(run.published) = 1 /\ run.published[1].uri = run.uri

\* C1: every run of validate, from a document change or from validateAll,
\* publishes exactly one diagnostics list, for the document's own uri.
C1_OnePublishPerRun ==
  \A i \in Runs : PublishedOnce(log[i])

\* C2: a run that excludes reports excluded publishes the empty list for the
\* document's uri, resolves no options and does not call the engine; a path
\* that is null or empty is always excluded.
C2_ExcludedNeverLinted ==
  \A i \in Runs :
    /\ Falsy(log[i].fsPath) => log[i].excluded
    /\ log[i].excluded =>
         /\ log[i].published = <<Publish(log[i].uri, <<>>)>>
         /\ ~log[i].optionsCalled
         /\ ~log[i].engineCalled

\* a document without a path, in a session without a root, while static
\* patterns are configured
C2_Witness ==
  \E i \in Runs :
    /\ Falsy(log[i].fsPath)
    /\ defaultExcludePatterns # <<>>
    /\ log[i].published = <<Publish(log[i].uri, <<>>)>>

Open == {u \in Range(Uris) : documents[u] # CLOSED}

\* C3: the configuration handler first stores the new settings in both
\* components and empties both caches, then validates each open document
\* once, with an exclusion decision and options computed under the new
\* settings.
C3_ReconfigureThenValidateAll ==
  event.kind = "configuration" =>
    LET s == assign(event.settings[1])
    IN  /\ configPath = s.config
        /\ jslintOptions = s.options
        /\ matcherConfigPath = s.excludePath
        /\ defaultExcludePatterns = TrueOnly(s.exclude)
        /\ \A u \in Range(Uris) :
             Cardinality({i \in Runs : log[i].uri = u}) = IF u \in Open THEN 1 ELSE 0
        /\ \A i \in Runs :
             /\ log[i].excluded = FreshExcluded(log[i].fsPath)
             /\ log[i].engineCalled =>
                  log[i].options = OrEmpty(FreshOptions(log[i].fsPath).val)
        /\ DOMAIN optionsCache \subseteq {log[i].fsPath : i \in Runs}
        /\ DOMAIN excludeCache \subseteq {log[i].fsPath : i \in Runs}

\* two open documents, one excluded under the new settings and one linted
C3_Witness ==
  /\ event.kind = "configuration"
  /\ Len(log) = 2
  /\ \E i, j \in Runs : log[i].excluded /\ log[j].engineCalled

ChangedNames == {lastSegment(event.changes[i]) : i \in 1..Len(event.changes)}
OptionsCleared ==
  \/ event.kind = "configuration"
  \/ event.kind = "watched" /\ JSLINTRC \in ChangedNames
MatcherCleared ==
  \/ event.kind = "configuration"
  \/ event.kind = "watched" /\ JSLINTIGNORE \in ChangedNames

FirstForPath(i) == \A j \in Runs : j < i => log[j].fsPath # log[i].fsPath

\* C4: after configure or clear, the first lookup for a path is recomputed
\* from the files and inputs as they now are, and nothing the cache held
\* before is returned or kept: what the cache holds afterwards is what a
\* lookup made now yields.
C4_NothingStaleAfterClear ==
  /\ OptionsCleared =>
       /\ \A p \in DOMAIN optionsCache : optionsCache[p] = FreshOptions(p).val
       /\ \A i \in Runs :
            log[i].optionsCalled /\ log[i].thrown = <<>> =>
              /\ FirstForPath(i) => ~log[i].optionsHit
              /\ log[i].options = OrEmpty(FreshOptions(log[i].fsPath).val)
  /\ MatcherCleared =>
       /\ \A p \in DOMAIN excludeCache : excludeCache[p] = FreshExcluded(p)
       /\ \A i \in Runs :
            /\ FirstForPath(i) => ~log[i].excludeHit
            /\ log[i].excluded = FreshExcluded(log[i].fsPath)

\* a watched jslint.conf and .jslintignore changed, and a document was linted
\* with options read anew
C4_Witness ==
  /\ event.kind = "watched"
  /\ JSLINTRC \in ChangedNames /\ JSLINTIGNORE \in ChangedNames
  /\ \E i \in Runs : log[i].engineCalled /\ log[i].options # EmptyObject
  /\ excludeCache # EmptyCache

\* the file of the source that applies to p, for the sources that are files
Selected(p) ==
  CASE Chosen(p) = 1 -> configPath
    [] Chosen(p) = 2 -> jslintOptions.body.props["config"].v
    [] Chosen(p) = 4 -> Nearest(p, JSLINTRC)
    [] Chosen(p) = 5 -> HomeFile
    [] OTHER -> NULL

\* the run resolved options from a configuration file that does not parse
ParseFailure(run) ==
  /\ run.optionsCalled /\ ~run.optionsHit
  /\ Selected(run.fsPath) # NULL
  /\ ~disk[Selected(run.fsPath)].ok

\* C9: when the configuration file selected for a document fails to parse, a
\* warning naming the file is shown, the engine is called with {} as options
\* and diagnostics are published for the document's uri.
C9_ParseFailureStillPublishes ==
  \A i \in Runs :
    ParseFailure(log[i]) =>
      /\ ParseError(Selected(log[i].fsPath), NULL) \in Range(log[i].msgs)
      /\ log[i].engineCalled
      /\ log[i].options = EmptyObject
      /\ PublishedOnce(log[i])

\* the same where the engine in use has a data() method
C9_WithCurrentEngine ==
  lib = "current" => C9_ParseFailureStillPublishes

\* C1 where the engine in use has a data() method
C1_WithCurrentEngine ==
  lib = "current" => C1_OnePublishPerRun

\* C11: with an engine whose data() fails, a run on a document that is not
\* excluded shows the warning about data(), publishes the empty list for the
\* document's uri and ends without an error.
C11_OutdatedEngineNoFindings ==
  \A i \in Runs :
    lib = "outdated" /\ log[i].engineCalled =>
      /\ NoData \in Range(log[i].msgs)
      /\ log[i].published = <<Publish(log[i].uri, <<>>)>>
      /\ log[i].thrown = <<>>

\* the handler ended in validateAll
ValidatedAll ==
  \/ event.kind = "configuration"
  \/ event.kind = "watched"
       /\ (JSLINTRC \in ChangedNames \/ JSLINTIGNORE \in ChangedNames)

\* C12: validateAll runs validate once for every open document, also after a
\* run that threw; the errors thrown are collected, none escapes, and the
\* collection is shown when the last document is done.
C12_EveryDocumentAttempted ==
  ValidatedAll =>
    /\ \A u \in Range(Uris) :
         Cardinality({i \in Runs : log[i].uri = u}) = IF u \in Open THEN 1 ELSE 0
    /\ \A i, j \in Runs : i < j => log[i].uri = Uris[1] /\ log[j].uri = Uris[2]
    /\ shown = Caught(log)

\* two open documents, the run of the first threw and the second still ran
C12_Witness ==
  /\ ValidatedAll
  /\ Len(log) = 2
  /\ log[1].thrown # <<>>
  /\ Range(log[1].thrown) \subseteq Range(shown)

\* the paths the runs of the last handler resolved options for
Resolved == {log[i].fsPath : i \in {j \in Runs : log[j].optionsCalled}}
Looked   == {log[i].fsPath : i \in Runs}

\* C13: a watched-files event empties the options cache iff a changed file is
\* named jslint.conf, empties the exclusion cache iff one is named
\* .jslintignore, and validates every open document iff one of the two came;
\* an event with neither name changes no cache and publishes nothing; the
\* stored config path, legacy options, exclude path and patterns never change.
C13_WatchedFilesFrame ==
  [][event'.kind = "watched" =>
       /\ UNCHANGED <<configPath, jslintOptions, matcherConfigPath,
                      defaultExcludePatterns>>
       /\ IF JSLINTRC \in ChangedNames'
          THEN DOMAIN optionsCache' \subseteq Resolved'
          ELSE \A p \in DOMAIN optionsCache :
                 /\ p \in DOMAIN optionsCache'
                 /\ Truthy(optionsCache[p]) => optionsCache'[p] = optionsCache[p]
       /\ IF JSLINTIGNORE \in ChangedNames'
          THEN DOMAIN excludeCache' \subseteq Looked'
          ELSE \A p \in DOMAIN excludeCache :
                 p \in DOMAIN excludeCache' /\ excludeCache'[p] = excludeCache[p]
       /\ IF ValidatedAll'
          THEN \A u \in Range(Uris) :
                 Cardinality({i \in Runs' : log'[i].uri = u})
                   = IF u \in Open THEN 1 ELSE 0
          ELSE /\ log' = <<>>
               /\ UNCHANGED <<optionsCache, excludeCache, diagnostics>>
  ]_vars

\* only .jslintignore changed: the documents were validated again while the
\* options cache kept an entry that no run of the event asked for
C13_Witness ==
  /\ event.kind = "watched"
  /\ JSLINTIGNORE \in ChangedNames /\ JSLINTRC \notin ChangedNames
  /\ Len(log) > 0
  /\ \E p \in DOMAIN optionsCache : p \notin Resolved

FailedInitialize ==
  event.kind = "initialize" /\ event.outcome \in {"invalid", "missing"}

\* C14: every failed initialization, with no jslint module found or with one
\* that is invalid, is answered with an error the client may retry and leaves
\* the engine handle unset.
C14_FailureIsRetryable ==
  FailedInitialize =>
    /\ event.response.error /\ event.response.retry
    /\ lib = "unset"

\* the same where no module was found
C14_MissingIsRetryable ==
  event.kind = "initialize" /\ event.outcome = "missing" => C14_FailureIsRetryable

\* after a failed initialization the handle is unset, and an initialization
\* that finds a module with `load` stores it
C14_RetrySucceeds ==
  [][/\ FailedInitialize => ~Ready
     /\ event'.kind = "initialize" /\ event'.outcome \in {"current", "outdated"}
          => ~event'.response.error /\ lib' = event'.outcome /\ Ready'
  ]_vars

----------------------------------------------------------------------------
(* SpecDiagnostic: makeDiagnostic and getSeverity on their own *)

\* the largest line and column of a warning, and the smallest negated
MaxCoord == 2

\* codes of warnings: none, the empty one, an error's, a warning's, and one
\* that starts with a small e
Codes == {NULL, EMPTY, <<"E", "1">>, <<"W", "1">>, <<"e", "1">>}

Problems ==
  [code : Codes, id : {0}, line : (0 - MaxCoord)..MaxCoord,
   character : (0 - MaxCoord)..MaxCoord, reason : {"Unexpected"}]

NoDiagnostic == [op |-> "none"]

InitDiagnostic ==
  /\ disk = <<>>
  /\ home = HOMEDIR
  /\ overflow = "thrown"
  /\ configPath = NULL
  /\ jslintOptions = Null
  /\ optionsCache = EmptyCache
  /\ matcherConfigPath = NULL
  /\ defaultExcludePatterns = <<>>
  /\ excludeCache = EmptyCache
  /\ LinterIdle
  /\ call = NoDiagnostic

MakeDiagnostic ==
  \E problem \in Problems :
    /\ call' = [op |-> "makeDiagnostic", problem |-> problem,
                diagnostic |-> makeDiagnostic(problem)]
    /\ UNCHANGED <<disk, home, overflow, optionsVars, matcherVars, linterVars>>

NextDiagnostic == MakeDiagnostic

SpecDiagnostic == InitDiagnostic /\ [][NextDiagnostic]_vars

Made == call.op = "makeDiagnostic"

\* C15 as stated: a warning with line <= 0 or character <= 0 gets a
\* diagnostic whose range starts at (0,0).
C15_EitherClampsBoth ==
  Made /\ (call.problem.line <= 0 \/ call.problem.character <= 0) =>
    call.diagnostic.start = [line |-> 0, character |-> 0]

\* C15: the line and the character of a warning are clamped each on its own:
\* one that is <= 0 gives the coordinate 0, any other gives itself less one;
\* so the range starts at (0,0) when both are <= 0 and is never negative.
C15_EachClampedAlone ==
  Made =>
    /\ call.diagnostic.start.line =
         IF call.problem.line <= 0 THEN 0 ELSE call.problem.line - 1
    /\ call.diagnostic.start.character =
         IF call.problem.character <= 0 THEN 0 ELSE call.problem.character - 1
    /\ call.diagnostic.end = call.diagnostic.start
    /\ call.problem.line <= 0 /\ call.problem.character <= 0 =>
         call.diagnostic.start = [line |-> 0, character |-> 0]

\* a warning on line 0 whose character is in range keeps its character
C15_Witness ==
  /\ Made
  /\ call.problem.line <= 0 /\ call.problem.character > 1
  /\ call.diagnostic.start = [line |-> 0, character |-> call.problem.character - 1]

\* C16: the severity of the diagnostic is Error iff the warning has no code,
\* an empty code, or a code whose first character is E; otherwise Warning.
C16_SeverityByCode ==
  Made =>
    /\ call.diagnostic.severity \in {Error, Warning}
    /\ call.diagnostic.severity = Error <=>
         \/ call.problem.code \in {NULL, EMPTY}
         \/ call.problem.code[1] = "E"

\* a warning without a code, reported as an Error
C16_Witness ==
  /\ Made
  /\ call.problem.code = NULL
  /\ call.diagnostic.severity = Error

----------------------------------------------------------------------------
(* SpecEdits: documents edited again and again *)

\* texts with one warning, with none, and one for which the engine's list
\* holds a null entry
EditTexts == {"x = 1", "x = 1;", "y = 1"}

Edit ==
  \E uri \in Range(Uris), text \in EditTexts : DidChangeContentOf(uri, text)

NextEdits == Initialize \/ Edit \/ DidClose

SpecEdits == Init /\ [][NextEdits]_vars

\* the diagnostics of the warnings of a text that are not null, in their order
Derived(text) ==
  LET kept == SelectSeq(JSLINT(text), LAMBDA w : w # NullWarning)
  IN  [i \in 1..Len(kept) |->
         makeDiagnostic([code |-> kept[i].code, id |-> i - 1, line |-> kept[i].line,
                         character |-> kept[i].column, reason |-> kept[i].message])]

Edited == event.kind = "content"

\* C17: after a change of a document was handled, the diagnostics published
\* last for its uri are those of its latest text: the empty list when the
\* document is excluded, else those derived from the engine's result on it.
C17_LatestTextPublished ==
  Edited /\ diagnostics[event.uri] # <<>> =>
    /\ documents[event.uri] = event.text
    /\ diagnostics[event.uri][1] =
         IF log[1].excluded THEN <<>> ELSE Derived(event.text)

\* the same for the changes whose run of validate did not throw
C17_UnlessThrown ==
  Edited /\ log[1].thrown = <<>> =>
    /\ documents[event.uri] = event.text
    /\ diagnostics[event.uri] =
         <<IF log[1].excluded THEN <<>> ELSE Derived(event.text)>>

\* C18: when the engine's list of warnings holds a null entry, the entry is
\* skipped, the other warnings are published as diagnostics in their order,
\* and validate does not fail.
C18_NullEntriesSkipped ==
  (Edited /\ log[1].engineCalled /\ lib = "current"
          /\ NullWarning \in Range(JSLINT(event.text))) =>
    /\ log[1].thrown = <<>>
    /\ log[1].published = <<Publish(event.uri, Derived(event.text))>>

----------------------------------------------------------------------------
(* Memoization and termination of the resolver *)

\* C19: with no configure and no clear in between, a getOptions call for a
\* path that was resolved before returns what the first call stored, reads
\* no file and shows nothing, whatever the first call resolved to.
C19_SecondCallMemoized ==
  [][call'.op = "getOptions" /\ call'.fsPath \in DOMAIN optionsCache =>
       /\ call'.hit
       /\ call'.val = optionsCache[call'.fsPath]
       /\ call'.reads = <<>> /\ call'.msgs = <<>>
       /\ optionsCache' = optionsCache
  ]_vars

\* the same where the first call resolved to an object
C19_ObjectsMemoized ==
  [][(/\ call'.op = "getOptions" /\ call'.fsPath \in DOMAIN optionsCache
      /\ Truthy(optionsCache[call'.fsPath])) =>
       /\ call'.hit
       /\ call'.val = optionsCache[call'.fsPath]
       /\ call'.reads = <<>> /\ call'.msgs = <<>>
       /\ optionsCache' = optionsCache
  ]_vars

\* jslint.conf files that extend nothing, a chain that ends, themselves, and
\* one another
CycleDisks ==
  { n @@ b @@ t :
      n \in {join(SRCDIR, JSLINTRC) :> f :
               f \in {Plain("b" :> Num(2), NoExt), Plain("b" :> Num(2), BASE),
                      Plain("a" :> Arr(<<2>>), JSLINTRC)}},
      b \in Slot(join(SRCDIR, BASE),
                 {Plain("a" :> Arr(<<1>>), TOP), Plain("a" :> Arr(<<1>>), JSLINTRC)}),
      t \in Slot(join(SRCDIR, TOP), {Plain("c" :> Num(0), NoExt)}) }

Overflows == {"thrown", "caught"}

InitCycles ==
  /\ disk \in CycleDisks
  /\ home \in {NULL, HOMEDIR}
  /\ overflow \in Overflows
  /\ configPath = NULL
  /\ jslintOptions = Null
  /\ optionsCache = EmptyCache
  /\ matcherConfigPath = NULL
  /\ defaultExcludePatterns = <<>>
  /\ excludeCache = EmptyCache
  /\ LinterIdle
  /\ call = NoCall

SpecCycles == InitCycles /\ [][NextOptions]_vars

\* the warning that a file that is there and parses could not be loaded
Spurious(m) ==
  m.msg = "cant-load" /\ existsSync(disk, m.file) /\ disk[m.file].ok

\* C20: resolution ends for every arrangement of files: the walk up the
\* directories stops at the root, and the processing of `extends` comes to an
\* end by itself for every chain, also one that leads back to a file being
\* resolved; it never goes on until the stack runs out.
C20_ResolutionEnds ==
  call.op = "getOptions" =>
    /\ ~call.thrown
    /\ \A i \in 1..Len(call.msgs) : ~Spurious(call.msgs[i])

\* the files a chain of `extends` leads through, starting at `file`
RECURSIVE Chain(_, _)
Chain(file, n) ==
  IF n = 0 \/ ~existsSync(disk, file) \/ ~disk[file].ok
     \/ disk[file].content.body.ext = NoExt
  THEN <<file>>
  ELSE <<file>> \o Chain(resolve(dirname(file), disk[file].content.body.ext), n - 1)

\* no file occurs twice on the chain of the jslint.conf nearest to p
Acyclic(p) ==
  LET c == Chain(Nearest(p, JSLINTRC), MaxStack)
  IN  \A i, j \in 1..Len(c) : c[i] = c[j] => i = j

\* the same where no chain of `extends` leads back to a file on it
C20_ChainsThatEnd ==
  call.op = "getOptions" /\ Acyclic(call.fsPath) => C20_ResolutionEnds

====
